---- MODULE Spec2Model ----
(***************************************************************************)
(* A model of scraper.py: the WebScraper session (driver handle and        *)
(* session_active flag), its operations start, login, scrape_page,         *)
(* extract_data, wait_random, close, and scoped use (__enter__/__exit__).  *)
(* The browser is the environment: every call made on it either succeeds   *)
(* or raises, chosen nondeterministically per call.                        *)
(***************************************************************************)
EXTENDS Integers, Sequences, FiniteSets, TLC

VARIABLES
    driver,          \* self.driver: NoHandle (None) or the id of a browser
    session_active,  \* self.session_active
    live,            \* browsers launched and not yet quit
    created,         \* number of browsers launched so far
    page,            \* the page the session's browser is on ("blank": none yet)
    scope,           \* the caller's position w.r.t. a `with` block
    last             \* the most recent call: arguments, browser calls, outcome

vars == <<driver, session_active, live, created, page, scope, last>>

----------------------------------------------------------------------------
(* Bounds *)

\* browsers one run may launch
MaxBrowsers == 2
\* elements of a parsed document given to extract_data
MaxElems == 3
\* resolution of the uniform draw in wait_random: r / DrawSteps in [0, 1)
DrawSteps == 2
\* wait_random bounds range over -1 .. MaxSeconds
MaxSeconds == 2

----------------------------------------------------------------------------
(* Values *)

NoHandle == 0
None == "None"

\* Python truthiness of an Optional[str] argument (`if url:`).
Truthy(s) == s # None /\ s # ""

\* Exceptions the browser library raises, all subclasses of Exception.
ExcTypes == {"TimeoutException", "NoSuchElementException",
             "WebDriverException", "Exception"}

NoExc == "none"

\* Return values, tagged with their Python type.
RetNone == [type |-> "NoneType", val |-> None]
RetBool(b) == [type |-> "bool", val |-> b]
RetSoup(d) == [type |-> "BeautifulSoup", val |-> d]
RetList(l) == [type |-> "list", val |-> l]
NoReturn == [type |-> "NoReturn", val |-> None]

\* The fields of self and of the browser world an operation reads and writes.
State == [driver |-> driver, session_active |-> session_active,
          live |-> live, created |-> created, page |-> page]

\* The result of running an operation from state st: the state it leaves, the
\* value it returns or the exception it lets propagate, the exception it
\* caught and reported, the browser calls it made and the sleeps it took.
Outcome(st, ret, raised, caught, calls, slept) ==
    [st |-> st, ret |-> ret, raised |-> raised, caught |-> caught,
     calls |-> calls, slept |-> slept]

\* A call made on the object self.driver refers to at that moment, and the
\* exception it raised, if any.
Call(name, d) == [call |-> name, on |-> d, exc |-> NoExc]

Raising(c, exc) == [c EXCEPT !.exc = exc]

Names(calls) == [i \in DOMAIN calls |-> calls[i].call]

----------------------------------------------------------------------------
(* Pages and parsed documents *)

Whitespace == {" "}

Elem(tag, attrs, text) == [tag |-> tag, attrs |-> attrs, text |-> text]

\* URLs callers pass, and the pages a browser can be on.
Urls == {"login", "data"}
Pages == Urls \cup {"blank", "home"}

\* The markup each page renders to, as the parser reads it.
Markup(p) ==
    CASE p = "login" -> <<Elem("p", {}, <<" ", "x", " ">>),
                          Elem("a", {<<"href", <<"u">>>>}, <<"y">>)>>
      [] p = "data"  -> <<Elem("a", {<<"href", <<"u">>>>}, <<"y">>),
                          Elem("p", {}, <<"y">>),
                          Elem("a", {}, <<" ", "x", " ">>)>>
      [] p = "home"  -> <<Elem("p", {}, <<"y">>)>>
      [] OTHER       -> <<>>

\* BeautifulSoup(page_source, parser)
BeautifulSoup(page_source, parser) == Markup(page_source)

----------------------------------------------------------------------------
(* Driver Session *)

\* _setup_driver: launch a browser, or raise.
setup_driver(st, ok) ==
    IF ok
    THEN Outcome([st EXCEPT !.live = @ \cup {st.created + 1},
                            !.created = @ + 1,
                            !.page = "blank"],
                 [type |-> "Chrome", val |-> st.created + 1], NoExc, NoExc,
                 <<Call("launch", st.created + 1)>>, <<>>)
    ELSE Outcome(st, NoReturn, "WebDriverException", NoExc, <<>>, <<>>)

\* start without its `is None` test: every call launches a browser.
start_unguarded(st, ok) ==
    LET d == setup_driver(st, ok) IN
    IF d.raised # NoExc
    THEN d
    ELSE Outcome([d.st EXCEPT !.driver = d.ret.val], RetNone, NoExc, NoExc,
                 d.calls, <<>>)

start(st, ok) ==
    IF st.driver = NoHandle
    THEN LET d == setup_driver(st, ok) IN
         IF d.raised # NoExc
         THEN d
         ELSE Outcome([d.st EXCEPT !.driver = d.ret.val], RetNone, NoExc, NoExc,
                      d.calls, <<>>)
    ELSE Outcome(st, RetNone, NoExc, NoExc, <<>>, <<>>)

\* close that quits the browser but keeps the handle and the flag.
close_keeps_handle(st) ==
    IF st.driver # NoHandle
    THEN Outcome([st EXCEPT !.live = @ \ {st.driver}, !.page = "blank"],
                 RetNone, NoExc, NoExc, <<Call("quit", st.driver)>>, <<>>)
    ELSE Outcome(st, RetNone, NoExc, NoExc, <<>>, <<>>)

\* close that releases the handle and leaves the flag as it is.
close_keeps_flag(st) ==
    IF st.driver # NoHandle
    THEN Outcome([st EXCEPT !.live = @ \ {st.driver},
                            !.page = "blank",
                            !.driver = NoHandle],
                 RetNone, NoExc, NoExc, <<Call("quit", st.driver)>>, <<>>)
    ELSE Outcome(st, RetNone, NoExc, NoExc, <<>>, <<>>)

\* driver.quit() of the Chrome driver swallows the browser's own errors, so
\* the quit returns.
close(st) ==
    IF st.driver # NoHandle
    THEN Outcome([st EXCEPT !.live = @ \ {st.driver},
                            !.page = "blank",
                            !.driver = NoHandle,
                            !.session_active = FALSE],
                 RetNone, NoExc, NoExc, <<Call("quit", st.driver)>>, <<>>)
    ELSE Outcome(st, RetNone, NoExc, NoExc, <<>>, <<>>)

enter(st, ok) == start(st, ok)

\* __exit__ that releases the session only when the body raised nothing.
exit_on_success(st, exc_type) ==
    IF exc_type = None THEN close(st)
    ELSE Outcome(st, RetNone, NoExc, NoExc, <<>>, <<>>)

\* __exit__(exc_type, exc_val, exc_tb): exc_type is None unless the body raised.
exit(st, exc_type) == close(st)

----------------------------------------------------------------------------
(* Authenticator *)

\* The form sequence with the submit click made before the password is
\* looked up and filled.
FormSteps_submit_early ==
    <<"get", "wait_username", "clear_username", "send_username",
      "find_submit", "click_submit",
      "find_password", "clear_password", "send_password">>

\* The browser calls of the form sequence, in program order.
FormSteps == <<"get", "wait_username", "clear_username", "send_username",
               "find_password", "clear_password", "send_password",
               "find_submit", "click_submit">>

\* `if success_indicator is not None:` in place of `if success_indicator:`.
LoginSteps_is_not_None(success_indicator) ==
    FormSteps \o (IF success_indicator # None THEN <<"wait_marker">> ELSE <<>>)

LoginSteps(success_indicator) ==
    FormSteps \o (IF Truthy(success_indicator) THEN <<"wait_marker">> ELSE <<>>)

\* The step of the form sequence named n.
StepNo(n) == CHOOSE i \in DOMAIN FormSteps : FormSteps[i] = n

\* What login makes of a run of its steps in which step fail raised exc
\* (fail = 0: none raised): the value returned, whether session_active is
\* set, and the exception reported.
Verdict(ret, active, caught) == [ret |-> ret, active |-> active, caught |-> caught]

\* A marker wait that times out is reported, and login goes on to succeed.
login_verdict_unverified(fail, exc) ==
    IF fail = 0
    THEN Verdict(TRUE, TRUE, NoExc)
    ELSE IF fail > Len(FormSteps) /\ exc = "TimeoutException"
    THEN Verdict(TRUE, TRUE, exc)
    ELSE Verdict(FALSE, FALSE, exc)

\* session_active is set as soon as the form is submitted, before the
\* marker is waited for.
login_verdict_flag_first(fail, exc) ==
    IF fail = 0
    THEN Verdict(TRUE, TRUE, NoExc)
    ELSE Verdict(FALSE, fail > Len(FormSteps), exc)

login_verdict(fail, exc) ==
    IF fail = 0
    THEN Verdict(TRUE, TRUE, NoExc)
    ELSE IF fail > Len(FormSteps) /\ exc = "TimeoutException"
    THEN Verdict(FALSE, FALSE, exc)
    ELSE Verdict(FALSE, FALSE, exc)

\* session_active assigned login's result on every path, the failing ones too.
mark_assigned(flag, active) == active

\* session_active after login: set on the paths that succeed, left alone on
\* the others.
mark(flag, active) == IF active THEN TRUE ELSE flag

\* The try block of login. env.failAt is the step at which the browser raises
\* env.exc (0: no step raises); env.landing is the page the submit click leads
\* to. A call on a driver that is None raises AttributeError.
login_try(st, url, success_indicator, env) ==
    LET d == st.driver
        steps == LoginSteps(success_indicator)
        fail == IF d = NoHandle THEN 1 ELSE env.failAt
        exc == IF d = NoHandle THEN "AttributeError"
               ELSE IF fail = 0 THEN NoExc ELSE env.exc
        executed == IF fail = 0 THEN steps ELSE SubSeq(steps, 1, fail)
        calls == [i \in DOMAIN executed |->
                    IF i = fail THEN Raising(Call(executed[i], d), exc)
                    ELSE Call(executed[i], d)]
        Done(k) == fail = 0 \/ fail > k
        pg == IF Done(StepNo("click_submit")) THEN env.landing
              ELSE IF Done(StepNo("get")) THEN url ELSE st.page
        slept == (IF Done(StepNo("get")) THEN <<2 * DrawSteps>> ELSE <<>>)
                 \o (IF Done(StepNo("click_submit")) THEN <<3 * DrawSteps>> ELSE <<>>)
        v == login_verdict(fail, exc)
    IN  Outcome([st EXCEPT !.page = pg,
                           !.session_active = mark(@, v.active)],
                RetBool(v.ret), NoExc, v.caught, calls, slept)

\* login without its `if self.driver is None: self.start()`.
login_no_autostart(st, url, success_indicator, env) ==
    login_try(st, url, success_indicator, env)

login(st, url, success_indicator, env) ==
    LET s == IF st.driver = NoHandle THEN start(st, env.startOk)
             ELSE Outcome(st, RetNone, NoExc, NoExc, <<>>, <<>>)
    IN  IF s.raised # NoExc
        THEN s
        ELSE LET t == login_try(s.st, url, success_indicator, env)
             IN  [t EXCEPT !.calls = s.calls \o @]

----------------------------------------------------------------------------
(* Page Fetcher *)

\* An exception raised where scrape_page has no handler leaves the call.
\* Swallowed instead: reported, and None returned.
propagate_swallowed(st, exc, calls, slept) ==
    Outcome(st, RetNone, NoExc, exc, calls, slept)

propagate(st, exc, calls, slept) ==
    Outcome(st, NoReturn, exc, NoExc, calls, slept)

\* env.navOk, env.srcOk: whether driver.get and driver.page_source succeed;
\* env.lxmlOk: whether the lxml parser is usable.
scrape_page(st, url, wait_time, env) ==
    LET s == IF st.driver = NoHandle THEN start(st, env.startOk)
             ELSE Outcome(st, RetNone, NoExc, NoExc, <<>>, <<>>)
        d == s.st.driver
        nav == IF Truthy(url) THEN <<Call("get", d)>> ELSE <<>>
        navExc == IF ~Truthy(url) THEN NoExc
                  ELSE IF d = NoHandle THEN "AttributeError"
                  ELSE IF env.navOk THEN NoExc ELSE "WebDriverException"
        srcExc == IF d = NoHandle THEN "AttributeError"
                  ELSE IF env.srcOk THEN NoExc ELSE "WebDriverException"
        at == [s.st EXCEPT !.page = IF Truthy(url) THEN url ELSE @]
        soup == IF env.lxmlOk THEN BeautifulSoup(at.page, "lxml")
                ELSE BeautifulSoup(at.page, "html.parser")
    IN  IF s.raised # NoExc
        THEN s
        ELSE IF navExc # NoExc
        THEN propagate(s.st, navExc,
                       s.calls \o <<Raising(Call("get", d), navExc)>>, <<>>)
        ELSE IF srcExc # NoExc
        THEN propagate(at, srcExc,
                       s.calls \o nav \o <<Raising(Call("page_source", d), srcExc)>>,
                       <<wait_time>>)
        ELSE Outcome(at, RetSoup(soup), NoExc, NoExc,
                     s.calls \o nav \o <<Call("page_source", d)>>, <<wait_time>>)

----------------------------------------------------------------------------
(* Extractor *)

\* soup.select(selector), for tag selectors: the matches in document order.
select(soup, selector) == SelectSeq(soup, LAMBDA e : e.tag = selector)

\* elem.get(attribute, default)
get(elem, attribute, default) ==
    IF \E a \in elem.attrs : a[1] = attribute
    THEN (CHOOSE a \in elem.attrs : a[1] = attribute)[2]
    ELSE default

RECURSIVE lstrip(_)
lstrip(s) == IF s # <<>> /\ Head(s) \in Whitespace THEN lstrip(Tail(s)) ELSE s

RECURSIVE rstrip(_)
rstrip(s) ==
    IF s # <<>> /\ s[Len(s)] \in Whitespace
    THEN rstrip(SubSeq(s, 1, Len(s) - 1)) ELSE s

\* elem.get_text(strip=True), for an element holding one text node.
get_text(elem) == rstrip(lstrip(elem.text))

\* extract_data that drops the entries that come out empty.
extract_data_nonempty(soup, selector, attribute) ==
    LET elements == select(soup, selector)
        data == IF Truthy(attribute)
                THEN [i \in DOMAIN elements |-> get(elements[i], attribute, <<>>)]
                ELSE [i \in DOMAIN elements |-> get_text(elements[i])]
    IN  RetList(SelectSeq(data, LAMBDA x : x # <<>>))

extract_data(soup, selector, attribute) ==
    LET elements == select(soup, selector)
        data == IF Truthy(attribute)
                THEN [i \in DOMAIN elements |-> get(elements[i], attribute, <<>>)]
                ELSE [i \in DOMAIN elements |-> get_text(elements[i])]
    IN  RetList(data)

----------------------------------------------------------------------------
(* Pacer *)

\* time.sleep(secs)
sleep(secs) == IF secs < 0 THEN "ValueError" ELSE NoExc

\* np.random.uniform(low, high) with the draw r / DrawSteps in [0, 1), in
\* units of 1 / DrawSteps seconds.
\* The draw taken from [0, high) whatever low is.
uniform_from_zero(low, high, r) == high * r

uniform(low, high, r) == low * DrawSteps + (high - low) * r

wait_random(st, min_seconds, max_seconds, r) ==
    LET wait_time == uniform(min_seconds, max_seconds, r)
    IN  IF sleep(wait_time) # NoExc
        THEN Outcome(st, NoReturn, sleep(wait_time), NoExc, <<>>, <<>>)
        ELSE Outcome(st, RetNone, NoExc, NoExc, <<>>, <<wait_time>>)

----------------------------------------------------------------------------
(* Inputs *)

\* success_indicator and url arguments: absent, empty, or a locator / URL.
Indicators == {None, "", "//div"}
UrlArgs == {None, ""} \cup Urls
Selectors == {"p", "a", "h1"}
Attributes == {None, "", "href"}
Seconds == -1 .. MaxSeconds

\* The browser's behaviour during one login call: whether a launch succeeds
\* (asked only of a stopped session), the step that raises and what it raises,
\* and the page the submit click leads to (when the click is reached).
Landings == {"login", "home"}
StartOks(st) == IF st.driver = NoHandle THEN BOOLEAN ELSE {TRUE}
LoginEnvs(st, success_indicator) ==
    LET Env(s, f, x, l) == [startOk |-> s, failAt |-> f, exc |-> x, landing |-> l]
        n == Len(LoginSteps(success_indicator))
    IN  {Env(s, 0, NoExc, l) : s \in StartOks(st), l \in Landings}
        \cup {Env(s, f, x, "login") :
                s \in StartOks(st), f \in 1 .. Len(FormSteps), x \in ExcTypes}
        \cup {Env(s, f, x, l) :
                s \in StartOks(st), f \in Len(FormSteps) + 1 .. n, x \in ExcTypes,
                l \in Landings}

\* The browser's behaviour during one scrape_page call.
ScrapeEnvs(st) ==
    [startOk : StartOks(st), navOk : BOOLEAN, srcOk : BOOLEAN, lxmlOk : BOOLEAN]

\* Documents extract_data is applied to.
Elems == {Elem(t, a, x) : t \in {"p", "a"}, a \in {{}, {<<"href", <<"u">>>>}},
                          x \in {<<" ", "x", " ">>, <<"y">>}}
AllDocs == UNION {[1 .. n -> Elems] : n \in 0 .. MaxElems}
PageDocs == {Markup(p) : p \in Pages}

----------------------------------------------------------------------------
(* Actions *)

\* An operation that needs a browser can launch one only below the bound.
CanLaunch == driver # NoHandle \/ created < MaxBrowsers

\* The caller is free to make a call: outside any scope or inside a body.
Callable == scope \in {"out", "in"}

\* Where the caller is after a call: an exception raised inside a `with`
\* body either is handled by the body or unwinds it.
AfterCall(out) ==
    IF scope = "in" /\ out.raised # NoExc THEN {"in", "unwinding"} ELSE {scope}

Commit(op, args, out, sc) ==
    /\ driver' = out.st.driver
    /\ session_active' = out.st.session_active
    /\ live' = out.st.live
    /\ created' = out.st.created
    /\ page' = out.st.page
    /\ scope' = sc
    /\ last' = [op |-> op, args |-> args, ret |-> out.ret, raised |-> out.raised,
                caught |-> out.caught, calls |-> out.calls, slept |-> out.slept]

Start ==
    /\ Callable /\ CanLaunch
    /\ \E ok \in BOOLEAN :
         LET out == start(State, ok)
         IN  \E sc \in AfterCall(out) : Commit("start", <<>>, out, sc)

Login ==
    /\ Callable /\ CanLaunch
    /\ \E url \in {"login"}, si \in Indicators :
         \E env \in LoginEnvs(State, si) :
            LET out == login(State, url, si, env)
            IN  \E sc \in AfterCall(out) : Commit("login", <<url, si>>, out, sc)

ScrapePage ==
    /\ Callable /\ CanLaunch
    /\ \E url \in UrlArgs, env \in ScrapeEnvs(State) :
         LET out == scrape_page(State, url, 2 * DrawSteps, env)
         IN  \E sc \in AfterCall(out) : Commit("scrape_page", <<url>>, out, sc)

ExtractData ==
    /\ Callable
    /\ \E soup \in PageDocs, selector \in Selectors, attribute \in Attributes :
         LET out == Outcome(State, extract_data(soup, selector, attribute),
                            NoExc, NoExc, <<>>, <<>>)
         IN  Commit("extract_data", <<soup, selector, attribute>>, out, scope)

WaitRandom ==
    /\ Callable
    /\ \E lo \in Seconds, hi \in Seconds, r \in 0 .. DrawSteps - 1 :
         LET out == wait_random(State, lo, hi, r)
         IN  \E sc \in AfterCall(out) : Commit("wait_random", <<lo, hi>>, out, sc)

Close ==
    /\ Callable
    /\ Commit("close", <<>>, close(State), scope)

\* `with scraper:` -- __enter__ runs; the body is entered unless it raises.
Enter ==
    /\ scope = "out" /\ CanLaunch
    /\ \E ok \in BOOLEAN :
         LET out == enter(State, ok)
         IN  Commit("__enter__", <<>>, out, IF out.raised # NoExc THEN "out" ELSE "in")

\* The body is left, by running off its end, by an early return, or by an
\* exception unwinding it; __exit__ runs on each.
Exit ==
    /\ scope \in {"in", "unwinding"}
    /\ \E how \in (IF scope = "unwinding" THEN {"error"} ELSE {"normal", "return"}) :
         LET exc_type == IF how = "error" THEN last.raised ELSE None
         IN  Commit("__exit__", <<how>>, exit(State, exc_type), "out")

Blank(op, args) ==
    [op |-> op, args |-> args, ret |-> NoReturn, raised |-> NoExc,
     caught |-> NoExc, calls |-> <<>>, slept |-> <<>>]

Init ==
    /\ driver = NoHandle
    /\ session_active = FALSE
    /\ live = {}
    /\ created = 0
    /\ page = "blank"
    /\ scope = "out"
    /\ last = Blank("__init__", <<>>)

Next ==
    \/ Start
    \/ Login
    \/ ScrapePage
    \/ ExtractData
    \/ WaitRandom
    \/ Close
    \/ Enter
    \/ Exit

Spec == Init /\ [][Next]_vars

----------------------------------------------------------------------------
(* extract_data as a function of its inputs: a fresh scraper is handed every
   document, selector and attribute of the bounded sets, and applies it. *)

InitExtract ==
    /\ driver = NoHandle
    /\ session_active = FALSE
    /\ live = {}
    /\ created = 0
    /\ page = "blank"
    /\ scope = "out"
    /\ \E soup \in AllDocs, selector \in Selectors, attribute \in Attributes :
         last = Blank("pending", <<soup, selector, attribute>>)

ApplyExtract ==
    /\ last.op = "pending"
    /\ LET out == Outcome(State, extract_data(last.args[1], last.args[2], last.args[3]),
                          NoExc, NoExc, <<>>, <<>>)
       IN  Commit("extract_data", last.args, out, scope)

NextExtract == ApplyExtract

SpecExtract == InitExtract /\ [][NextExtract]_vars

----------------------------------------------------------------------------
(* Properties *)

Returned(b) == last.raised = NoExc /\ last.ret.type = "bool" /\ last.ret.val = b

\* The browser calls of the last operation after any launch, by name.
Issued == SelectSeq(Names(last.calls), LAMBDA n : n # "launch")

TimedOutAt(n) ==
    /\ Issued # <<>>
    /\ Issued[Len(Issued)] = n
    /\ last.caught = "TimeoutException"

\* Every step of the form sequence was made and none of them raised.
FormCompleted ==
    /\ Len(Issued) >= Len(FormSteps)
    /\ SubSeq(Issued, 1, Len(FormSteps)) = FormSteps
    /\ last.caught = NoExc \/ Len(Issued) > Len(FormSteps)

\* C1: every login() call, from a stopped or a started session and whatever
\* the browser does (a failed launch included), ends by returning a boolean;
\* no exception leaves login().
C1_LoginAlwaysReturnsBool ==
    last.op = "login" => last.raised = NoExc /\ last.ret.type = "bool"

\* C2: login() with a success marker returns False when the wait for the
\* username field times out, True when every form step succeeds and the
\* marker appears, False when every form step succeeds and the wait for the
\* marker times out; it raises in none of these cases.
C2_MarkerOutcomes ==
    (last.op = "login" /\ Truthy(last.args[2])) =>
        /\ TimedOutAt("wait_username") => Returned(FALSE)
        /\ (Issued = LoginSteps(last.args[2]) /\ last.caught = NoExc)
              => Returned(TRUE)
        /\ (FormCompleted /\ TimedOutAt("wait_marker")) => Returned(FALSE)

C2_Witness ==
    /\ last.op = "login" /\ Truthy(last.args[2])
    /\ FormCompleted /\ TimedOutAt("wait_marker")
    /\ Returned(FALSE)

\* C3: login() without a success marker returns True, with the session
\* marked authenticated, exactly when the navigation, the username wait, the
\* two fills and the submit click all complete without an exception; it
\* makes no browser call after the click.
C3_NoMarkerOutcome ==
    (last.op = "login" /\ ~Truthy(last.args[2])) =>
        /\ Returned(TRUE) <=> (Issued = FormSteps /\ last.caught = NoExc)
        /\ Returned(TRUE) => session_active
        /\ Len(Issued) <= Len(FormSteps)
        /\ \A i \in DOMAIN Issued : Issued[i] = FormSteps[i]

C3_Witness ==
    /\ last.op = "login" /\ last.args[2] = ""
    /\ Returned(TRUE) /\ session_active
    /\ Issued = FormSteps

\* C4: however the body of a `with` block over the scraper is left (off its
\* end, by an early return, by an exception), once it is left the browser
\* handle is released and the session is not authenticated.
C4_ScopeExitCloses ==
    last.op = "__exit__" => driver = NoHandle /\ ~session_active /\ live = {}

C4_Witness ==
    /\ last.op = "__exit__" /\ last.args = <<"error">>
    /\ Names(last.calls) = <<"quit">>
    /\ driver = NoHandle /\ ~session_active

\* C5: close() on a started session quits its browser exactly once and
\* leaves the session stopped and not authenticated; close() on a stopped
\* session (just closed, or never started) changes nothing, makes no browser
\* call and raises nothing.
C5_CloseIdempotent ==
    [][last'.op = "close" =>
         /\ last'.raised = NoExc
         /\ driver' = NoHandle /\ ~session_active'
         /\ IF driver # NoHandle
            THEN /\ last'.calls = <<Call("quit", driver)>>
                 /\ live' = live \ {driver}
            ELSE /\ last'.calls = <<>>
                 /\ UNCHANGED <<driver, session_active, live, created, page>>]_vars

C5_Witness ==
    /\ last.op = "close" /\ last.calls = <<>>
    /\ created > 0 /\ driver = NoHandle /\ ~session_active

\* C6: start() on a started session launches nothing and leaves the handle
\* and the authenticated flag as they were; a session never owns more than
\* one live browser, and a browser is launched only from the stopped state.
C6_StartIdempotent ==
    /\ [](Cardinality(live) <= 1 /\ (driver # NoHandle => live = {driver}))
    /\ [][/\ (last'.op = "start" /\ driver # NoHandle) =>
                /\ last'.calls = <<>> /\ last'.raised = NoExc
                /\ UNCHANGED <<driver, session_active, live, created, page>>
          /\ (created' # created \/ live' \ live # {}) => driver = NoHandle]_vars

C6_Witness ==
    /\ last.op = "start" /\ last.calls = <<>> /\ last.raised = NoExc
    /\ driver # NoHandle /\ session_active /\ created = 2

\* C7: session_active goes from False to True only in a login() call that
\* returns True; no other operation, and no login() that returns False or
\* raises, sets it.
C7_OnlyLoginAuthenticates ==
    [][(~session_active /\ session_active') =>
          /\ last'.op = "login"
          /\ last'.raised = NoExc
          /\ last'.ret.type = "bool" /\ last'.ret.val = TRUE]_vars

C7_Witness ==
    /\ session_active
    /\ last.op = "login" /\ Returned(TRUE)
    /\ Names(last.calls)[1] = "launch"

\* C8: every browser call login() and scrape_page() make is made on a
\* present handle, the session's own live browser, also when they are
\* called on a stopped session.
C8_CallsOnStartedSession ==
    last.op \in {"login", "scrape_page"} =>
        \A i \in DOMAIN last.calls :
            /\ last.calls[i].on # NoHandle
            /\ last.calls[i].on = driver
            /\ last.calls[i].on \in live

C8_Witness ==
    /\ last.op \in {"login", "scrape_page"}
    /\ created = 2
    /\ Len(last.calls) > 1
    /\ last.calls[1] = Call("launch", 2)
    /\ last.calls[2].on = 2

\* C9: scrape_page() returns a parsed document or lets the browser's
\* exception out, never None; it navigates exactly when given a URL, and
\* given none it parses the page the session is on, unmoved.
C9_ScrapeReturnsDocOrRaises ==
    [][last'.op = "scrape_page" =>
         /\ \/ last'.raised = NoExc /\ last'.ret.type = "BeautifulSoup"
            \/ last'.raised \in ExcTypes /\ last'.ret = NoReturn
         /\ last'.caught = NoExc
         /\ last'.ret.type = "BeautifulSoup" => last'.ret.val = Markup(page')
         /\ IF Truthy(last'.args[1])
            THEN /\ \A i \in DOMAIN last'.calls :
                       last'.calls[i].call = "get" =>
                           i = Len(last'.calls) \/ page' = last'.args[1]
                 /\ last'.ret.type = "BeautifulSoup" => page' = last'.args[1]
            ELSE /\ \A i \in DOMAIN last'.calls : last'.calls[i].call # "get"
                 /\ page' = page]_vars

C9_Witness ==
    /\ last.op = "scrape_page" /\ last.args[1] = None
    /\ last.raised = NoExc
    /\ page = "home" /\ last.ret = RetSoup(Markup("home"))
    /\ Names(last.calls) = <<"page_source">>

\* The position in soup of the k-th element the selector matches.
KthMatch(soup, selector, k) ==
    CHOOSE i \in DOMAIN soup :
        /\ soup[i].tag = selector
        /\ Cardinality({j \in 1 .. i : soup[j].tag = selector}) = k

\* The text x without the whitespace at its two ends.
Trimmed(x) ==
    LET inked == {i \in DOMAIN x : x[i] \notin Whitespace}
    IN  IF inked = {} THEN <<>>
        ELSE SubSeq(x, CHOOSE i \in inked : \A j \in inked : i <= j,
                       CHOOSE i \in inked : \A j \in inked : i >= j)

\* C10: extract_data() returns a sequence as long as the number N of
\* elements the selector matches, whose i-th entry comes from the i-th match
\* in document order: with an attribute name, the element's value for it, or
\* the empty string if it has none; without, the element's trimmed text.
\* Nothing is deduplicated, and N = 0 gives the empty sequence.
C10_ExtractPerMatch ==
    last.op = "extract_data" =>
        LET soup == last.args[1]
            selector == last.args[2]
            attribute == last.args[3]
            N == Cardinality({i \in DOMAIN soup : soup[i].tag = selector})
            data == last.ret.val
        IN  /\ last.raised = NoExc /\ last.ret.type = "list"
            /\ Len(data) = N
            /\ \A k \in 1 .. N :
                 LET e == soup[KthMatch(soup, selector, k)]
                     vals == {a[2] : a \in {b \in e.attrs : b[1] = attribute}}
                 IN  IF Truthy(attribute)
                     THEN IF vals = {} THEN data[k] = <<>> ELSE data[k] \in vals
                     ELSE data[k] = Trimmed(e.text)

C10_Witness ==
    /\ last.op = "extract_data"
    /\ Len(last.args[1]) = 3 /\ last.args[2] = "a" /\ last.args[3] = "href"
    /\ last.args[1][2].tag = "p"
    /\ last.ret.val = <<<<>>, <<"u">>>>

\* The one sleep of the last call lasted between lo and hi seconds.
SleptOnceWithin(lo, hi) ==
    /\ last.raised = NoExc /\ last.ret = RetNone
    /\ Len(last.slept) = 1
    /\ lo * DrawSteps <= last.slept[1] /\ last.slept[1] <= hi * DrawSteps

\* C11 as stated: for every pair of bounds (min, max) given to wait_random()
\* the duration drawn lies in [min, max], and the call sleeps once for it and
\* returns.
C11_WaitWithinAnyBounds ==
    last.op = "wait_random" => SleptOnceWithin(last.args[1], last.args[2])

\* C11, amended: for bounds with 0 <= min <= max the duration wait_random()
\* draws lies in [min, max], and the call sleeps once for it and returns.
C11_WaitWithinOrderedBounds ==
    (last.op = "wait_random" /\ 0 <= last.args[1] /\ last.args[1] <= last.args[2])
        => SleptOnceWithin(last.args[1], last.args[2])

C11_Witness ==
    /\ last.op = "wait_random" /\ last.args = <<1, 2>>
    /\ SleptOnceWithin(1, 2)
    /\ last.slept[1] > DrawSteps

\* The browser calls of the last operation after any launch.
Made == SelectSeq(last.calls, LAMBDA c : c.call # "launch")

\* The order login's browser calls are to be made in.
LoginOrder == <<"get", "wait_username", "clear_username", "send_username",
                "find_password", "clear_password", "send_password",
                "find_submit", "click_submit", "wait_marker">>

\* Call n was made, and returned, before call i of the last operation.
DoneBefore(n, i) ==
    \E j \in 1 .. i - 1 : Made[j].call = n /\ Made[j].exc = NoExc

\* C12: the browser calls of one login() are made at most once each and in
\* the order navigate, wait for the username field, fill it, look up and fill
\* the password, look up and click the submit control, then, only with a
\* marker given, wait for the marker. The click is made only after both
\* fields were filled in the same call; after a call that raises no further
\* call is made, and none is made again.
C12_LoginStepOrder ==
    last.op = "login" =>
        /\ Len(Made) <= Len(LoginOrder)
        /\ \A i \in DOMAIN Made :
             /\ Made[i].call = LoginOrder[i]
             /\ Made[i].exc # NoExc => i = Len(Made)
             /\ Made[i].call = "wait_marker" => Truthy(last.args[2])
             /\ Made[i].call = "click_submit" =>
                   DoneBefore("send_username", i) /\ DoneBefore("send_password", i)
        /\ \A i, j \in DOMAIN Made : Made[i].call = Made[j].call => i = j

C12_Witness ==
    /\ last.op = "login" /\ Truthy(last.args[2])
    /\ Len(Made) = 9
    /\ Made[9] = Raising(Call("click_submit", driver), "WebDriverException")
    /\ Returned(FALSE)

\* C13: a login() that returns False leaves session_active as it was and
\* keeps the browser handle: a session authenticated before stays flagged
\* authenticated, and a stopped session whose launch succeeded is left
\* started and not authenticated.
C13_FailedLoginFrame ==
    [][(/\ last'.op = "login" /\ last'.raised = NoExc
        /\ last'.ret.type = "bool" /\ last'.ret.val = FALSE) =>
          /\ session_active' = session_active
          /\ driver' # NoHandle /\ driver' \in live'
          /\ \A i \in DOMAIN last'.calls : last'.calls[i].call # "quit"
          /\ IF driver # NoHandle
             THEN driver' = driver /\ live' = live /\ created' = created
             ELSE /\ last'.calls[1] = Call("launch", driver')
                  /\ live' = live \cup {driver'}
                  /\ ~session_active']_vars

C13_Witness ==
    /\ last.op = "login" /\ Returned(FALSE)
    /\ session_active /\ driver \in live
    /\ Names(last.calls)[1] = "get"

\* C14: in every state the operations and scoped entry and exit can reach,
\* session_active being True implies a browser handle is present; a stopped
\* session is never authenticated.
C14_AuthenticatedImpliesStarted ==
    session_active => driver # NoHandle /\ driver \in live

C14_Witness ==
    /\ session_active /\ driver \in live
    /\ created = 2 /\ scope = "in"

====
